---- MODULE Spec2Model ----
(***************************************************************************)
(* SWETA service worker (src/service-worker.js): the Cache Storage of the  *)
(* origin, the worker lifecycle (install, activate) and the fetch listener *)
(* with its background refresh, as a state machine.                        *)
(*                                                                         *)
(* A response is a record [kind, status, body].  kind "net" is a response  *)
(* of the origin server, "synth" the response built at lines 110-116,      *)
(* "absent" a missing cache entry; the kinds "undefined", "rejected",      *)
(* "default" and "none" are what the page that issued the request may      *)
(* observe instead of a response.                                          *)
(***************************************************************************)
EXTENDS Integers, Sequences, FiniteSets, TLC

VARIABLES
    phase,       \* worker lifecycle: "parsed", "installed", "active"
    cacheNames,  \* caches.keys(): the partitions of the origin, in creation order
    cacheData,   \* partition name -> (key -> stored response or NoEntry)
    srv,         \* content version the origin server currently serves
    storeDown,   \* TRUE once Cache Storage has become unavailable
    hs,          \* one record per fetch event being handled
    sched        \* the last run of checkScheduledMessages: its clock and outcome

vars == <<phase, cacheNames, cacheData, srv, storeDown, hs, sched>>

----------------------------------------------------------------------------
(* Bounds *)

\* number of fetch events handled concurrently
NumHandlers == 2

\* number of content versions the origin server goes through
MaxBody == 2

Handlers == 1..NumHandlers

----------------------------------------------------------------------------
(* Constants of the worker *)

STATIC_CACHE == [app |-> "sweta", kind |-> "static", ver |-> "v1.0.0"]

DYNAMIC_CACHE == [app |-> "sweta", kind |-> "dynamic", ver |-> "v1.0.0"]

\* a partition left behind by the previous version of the worker
OLD_CACHE == [app |-> "sweta", kind |-> "static", ver |-> "v0.9.0"]

AllCaches == {STATIC_CACHE, DYNAMIC_CACHE, OLD_CACHE}

staticAssets == <<"root", "index", "manifest", "font">>

\* the URLs of the model: the four static assets, one more same-origin
\* resource, the Apps Script endpoint and a third-party resource
Urls == {"root", "index", "manifest", "font", "app", "api", "ext"}

\* url.origin
OriginOf(u) ==
    CASE u = "font" -> "https://fonts.googleapis.com"
      [] u = "api" -> "https://script.google.com"
      [] u = "ext" -> "https://cdn.example"
      [] OTHER -> "self"

\* url.href.includes(pattern), for the two patterns the worker tests
HrefIncludes(u, pattern) ==
    \/ pattern = "script.google.com" /\ u = "api"
    \/ pattern = "fonts.googleapis.com" /\ u = "font"

\* keys a partition may hold: cache.addAll of the message listener takes
\* whatever URLs the page sends
Keys == Urls

----------------------------------------------------------------------------
(* Responses *)

NoEntry == [kind |-> "absent", status |-> 0, body |-> 0]

NoReply == [kind |-> "none", status |-> 0, body |-> 0]

\* respondWith() was given a promise that resolved with undefined
Undefined == [kind |-> "undefined", status |-> 0, body |-> 0]

\* respondWith() was given a promise that rejected
Rejected == [kind |-> "rejected", status |-> 0, body |-> 0]

\* the listener returned without respondWith(): the browser handles the request
Default == [kind |-> "default", status |-> 0, body |-> 0]

\* new Response('Offline - Content not available', {status: 503, ...})
Offline == [kind |-> "synth", status |-> 503, body |-> 0]

\* a response of the origin server: status st and, when it carries the
\* resource (status 200), the content version b
NetResponse(st, b) ==
    [kind |-> "net", status |-> st, body |-> IF st = 200 THEN b ELSE 0]

\* statuses the origin server may answer a URL with
StatusesOf(u) == IF u = "app" THEN {200, 204, 500} ELSE {200, 500}

\* Response.ok
IsOk(st) == st >= 200 /\ st <= 299

EmptyCache == [k \in Keys |-> NoEntry]

----------------------------------------------------------------------------
(* Requests *)

\* the request descriptors a page may issue
Requests ==
    { [url |-> "index", method |-> "GET", dest |-> "document"],
      [url |-> "app", method |-> "GET", dest |-> "document"],
      [url |-> "app", method |-> "POST", dest |-> "empty"],
      [url |-> "font", method |-> "GET", dest |-> "style"],
      [url |-> "api", method |-> "GET", dest |-> "empty"],
      [url |-> "ext", method |-> "GET", dest |-> "image"] }

NoRequest == [url |-> "none", method |-> "none", dest |-> "none"]

\* new Request('./index.html'), as caches.match('./index.html') builds it
FallbackRequest == [url |-> "index", method |-> "GET", dest |-> "empty"]

IdleHandler ==
    [pc |-> "idle", req |-> NoRequest, reply |-> NoReply, resp |-> NoEntry,
     via |-> "none", nfetch |-> 0, sread |-> 0, swrite |-> 0, dirty |-> FALSE]

----------------------------------------------------------------------------
(* Cache Storage *)

Range(s) == {s[i] : i \in 1..Len(s)}

\* outcomes of one Cache Storage operation: TRUE resolves, FALSE rejects
StoreOutcomes == IF storeDown THEN {FALSE} ELSE {TRUE}

\* caches.match(request): the first partition, in creation order, that holds
\* the request's URL; only GET requests match
CacheMatch(names, data, req) ==
    LET found == {i \in 1..Len(names) : data[names[i]][req.url] # NoEntry}
        first == CHOOSE i \in found : \A j \in found : i <= j
    IN  IF req.method # "GET" \/ found = {} THEN NoEntry
        ELSE data[names[first]][req.url]

\* variant of CacheOpen: a partition is created at every open
CacheOpenAlways(names, name) == Append(names, name)

\* caches.open(name): creates the partition when it does not exist
CacheOpen(names, name) ==
    IF name \in Range(names) THEN names ELSE Append(names, name)

\* variant of CachePut: an entry that exists is kept
CachePutIfAbsent(data, name, key, r) ==
    IF data[name][key] = NoEntry THEN [data EXCEPT ![name][key] = r] ELSE data

\* cache.put(request, response)
CachePut(data, name, key, r) == [data EXCEPT ![name][key] = r]

\* cache.addAll(urls) fetches every URL and stores all responses or none.
\* The set of its outcomes when the server serves content version b: net[u]
\* is the status the fetch of u is answered with, 0 when that fetch fails;
\* addAll rejects when a fetch fails or a status is not ok.
AddAllOutcomes(urls, b) ==
    LET nets == {net \in [urls -> {0, 200, 204, 500}] :
                   \A u \in urls : net[u] \in StatusesOf(u) \cup {0}}
    IN  { IF \A u \in urls : IsOk(net[u])
          THEN [ok |-> TRUE, entries |-> [u \in urls |-> NetResponse(net[u], b)]]
          ELSE [ok |-> FALSE, entries |-> [u \in urls |-> NoEntry]]
          : net \in nets }

\* variant of CacheAddAll: the partition holds the new entries only
CacheAddAllReplace(data, name, entries) ==
    [data EXCEPT ![name] =
       [k \in Keys |-> IF k \in DOMAIN entries THEN entries[k] ELSE NoEntry]]

\* the partition after a cache.addAll that resolved
CacheAddAll(data, name, entries) ==
    [data EXCEPT ![name] =
       [k \in Keys |-> IF k \in DOMAIN entries THEN entries[k] ELSE @[k]]]

----------------------------------------------------------------------------
(* Decisions of the worker *)

\* variant of ShouldBypass: the pattern never matches
ShouldBypassNever(u) == FALSE

\* line 67: Google Apps Script requests always go to the network
ShouldBypass(u) == HrefIncludes(u, "script.google.com")

\* variant of ShouldIgnore: the origin test never holds
ShouldIgnoreNever(u) == FALSE

\* line 73: cross-origin requests other than fonts are left alone
ShouldIgnore(u) ==
    OriginOf(u) # "self" /\ ~HrefIncludes(u, "fonts.googleapis.com")

\* variant of Cacheable: the status test is inverted
CacheableInverted(r) == r.kind = "net" /\ r.status # 200

\* variant of Cacheable: the status test is missing
CacheableAny(r) == r.kind = "net"

\* line 88, negated: the response of a miss is stored
Cacheable(r) == ~(r.kind # "net" \/ r.status # 200)

\* variant of RefreshCacheable: the status test is missing
RefreshCacheableAny(r) == r.kind = "net"

\* line 125: the response of a background refresh is stored
RefreshCacheable(r) == r.kind = "net" /\ r.status = 200

\* variant of IsOldCache: the filter selects nothing
IsOldCacheNever(name) == FALSE

\* lines 45-47: the partitions activate deletes
IsOldCache(name) ==
    name.app = "sweta" /\ name # STATIC_CACHE /\ name # DYNAMIC_CACHE

\* variant of WantsFallback: the destination test never holds
WantsFallbackNever(req) == FALSE

\* line 105: a failed fetch for a document falls back to the cached index.html
WantsFallback(req) == req.dest = "document"

----------------------------------------------------------------------------
(* The reminder timetable of checkScheduledMessages.  The clock is read    *)
(* as getDay() (0 = Sunday), getHours() and getMinutes().                  *)

Days == 0..6
Hours == 0..23
Minutes == 0..59

\* line 256: Sunday noon
WeeklyRule(day, hours, minutes) == day = 0 /\ hours = 12 /\ minutes = 0

\* variant of MorningRule: the weekday test is missing
MorningRuleAnyDay(day, hours, minutes) == hours = 8 /\ minutes = 0

\* line 261: 08:00 on every day but Sunday
MorningRule(day, hours, minutes) == day # 0 /\ hours = 8 /\ minutes = 0

\* variant of HourlySlot: the slot is the full hour
HourlySlotOnTheHour(day, minutes) == day # 0 /\ minutes = 0

\* line 266: half past, on every day but Sunday
HourlySlot(day, minutes) == day # 0 /\ minutes = 30

\* line 267: the hours of the half-hour reminders
HourlyWindow(hours) == (hours = 8) \/ (hours >= 9 /\ hours <= 21)

\* lines 266-267: both tests of the third branch
HourlyRule(day, hours, minutes) == HourlySlot(day, minutes) /\ HourlyWindow(hours)

\* lines 252-271: message and shouldNotify after the chain of tests
CheckScheduledMessages(day, hours, minutes) ==
    IF WeeklyRule(day, hours, minutes)
    THEN [message |-> "weekly", shouldNotify |-> TRUE]
    ELSE IF MorningRule(day, hours, minutes)
         THEN [message |-> "morning", shouldNotify |-> TRUE]
         ELSE IF HourlySlot(day, minutes)
              THEN IF HourlyWindow(hours)
                   THEN [message |-> "hourly", shouldNotify |-> TRUE]
                   ELSE [message |-> "", shouldNotify |-> FALSE]
              ELSE [message |-> "", shouldNotify |-> FALSE]

\* the clock reading (Sunday 0:00 at first) and the outcome of the run of
\* checkScheduledMessages at that reading, none yet
NoSchedule ==
    [ran |-> FALSE, day |-> 0, hours |-> 0, minutes |-> 0,
     message |-> "", shouldNotify |-> FALSE, shown |-> <<>>]

----------------------------------------------------------------------------
(* Initial states: the worker script has been parsed; Cache Storage is     *)
(* empty or holds the static partition of the previous version.            *)

OldData == [EmptyCache EXCEPT !["index"] = NetResponse(200, 0)]

Init ==
    /\ phase = "parsed"
    /\ cacheNames \in {<<>>, <<OLD_CACHE>>}
    /\ cacheData = [n \in AllCaches |->
                      IF n = OLD_CACHE /\ cacheNames # <<>> THEN OldData
                      ELSE EmptyCache]
    /\ srv = 1
    /\ storeDown = FALSE
    /\ hs = [h \in Handlers |-> IdleHandler]
    /\ sched = NoSchedule

----------------------------------------------------------------------------
(* Cache Storage becomes unavailable (quota, storage eviction, private     *)
(* mode): from then on each of its operations rejects.                     *)

StoreBreaks ==
    /\ ~storeDown
    /\ storeDown' = TRUE
    /\ UNCHANGED <<phase, cacheNames, cacheData, srv, hs, sched>>

----------------------------------------------------------------------------
(* The origin server publishes new content *)

ServerUpdate ==
    /\ srv < MaxBody
    /\ srv' = srv + 1
    /\ UNCHANGED <<phase, cacheNames, cacheData, storeDown, hs, sched>>

----------------------------------------------------------------------------
(* install listener, lines 17-33.  The rejection of caches.open or of     *)
(* cache.addAll is caught at line 26.                                      *)

AssetSet == Range(staticAssets)

Install ==
    /\ phase = "parsed"
    /\ phase' = "installed"
    /\ \E okOpen \in StoreOutcomes :
          IF ~okOpen
          THEN UNCHANGED <<cacheNames, cacheData>>
          ELSE /\ cacheNames' = CacheOpen(cacheNames, STATIC_CACHE)
               /\ \E okAdd \in StoreOutcomes,
                     out \in AddAllOutcomes(AssetSet, srv) :
                     IF okAdd /\ out.ok
                     THEN cacheData' = CacheAddAll(cacheData, STATIC_CACHE,
                                                   out.entries)
                     ELSE UNCHANGED cacheData
    /\ UNCHANGED <<srv, storeDown, hs, sched>>

(* activate listener, lines 36-59: every partition of an older version is  *)
(* deleted; when caches.keys() rejects nothing is deleted.                 *)

Activate ==
    /\ phase = "installed"
    /\ phase' = "active"
    /\ \E ok \in StoreOutcomes :
          IF ok
          THEN /\ cacheNames' = SelectSeq(cacheNames, LAMBDA n : ~IsOldCache(n))
               /\ cacheData' = [n \in AllCaches |->
                                  IF IsOldCache(n) THEN EmptyCache
                                  ELSE cacheData[n]]
          ELSE UNCHANGED <<cacheNames, cacheData>>
    /\ UNCHANGED <<srv, storeDown, hs, sched>>

----------------------------------------------------------------------------
(* fetch listener, lines 62-120 *)

\* lines 63-77: the synchronous part of the listener
FetchEvent(h) ==
    /\ phase = "active"
    /\ hs[h].pc = "idle"
    /\ \E req \in Requests :
          hs' = [hs EXCEPT ![h] =
                   IF ShouldBypass(req.url)
                   THEN [IdleHandler EXCEPT !.pc = "bypass", !.req = req,
                                            !.nfetch = 1]
                   ELSE IF ShouldIgnore(req.url)
                   THEN [IdleHandler EXCEPT !.pc = "done", !.req = req,
                                            !.reply = Default,
                                            !.via = "ignored"]
                   ELSE [IdleHandler EXCEPT !.pc = "match", !.req = req]]
    /\ UNCHANGED <<phase, cacheNames, cacheData, srv, storeDown, sched>>

\* line 68: respondWith(fetch(request)), the fetch resolves
BypassRespond(h) ==
    /\ hs[h].pc = "bypass"
    /\ \E st \in StatusesOf(hs[h].req.url) :
          hs' = [hs EXCEPT ![h].pc = "done", ![h].via = "bypass",
                           ![h].reply = NetResponse(st, srv)]
    /\ UNCHANGED <<phase, cacheNames, cacheData, srv, storeDown, sched>>

\* line 68: respondWith(fetch(request)), the fetch rejects
BypassFail(h) ==
    /\ hs[h].pc = "bypass"
    /\ hs' = [hs EXCEPT ![h].pc = "done", ![h].via = "bypass",
                        ![h].reply = Rejected]
    /\ UNCHANGED <<phase, cacheNames, cacheData, srv, storeDown, sched>>

\* variant of CacheLookup: on a hit the response is withheld until the
\* refresh has ended
CacheLookupAwait(h) ==
    /\ hs[h].pc = "match"
    /\ \E ok \in StoreOutcomes :
          LET cached == CacheMatch(cacheNames, cacheData, hs[h].req) IN
          hs' = [hs EXCEPT ![h] =
                   IF ~ok
                   THEN [@ EXCEPT !.pc = "done", !.via = "storefail",
                                  !.reply = Rejected]
                   ELSE IF cached # NoEntry
                   THEN [@ EXCEPT !.pc = "bgfetch", !.via = "hit",
                                  !.sread = 1, !.nfetch = 1]
                   ELSE [@ EXCEPT !.pc = "fetch", !.sread = 1, !.nfetch = 1]]
    /\ UNCHANGED <<phase, cacheNames, cacheData, srv, storeDown, sched>>

\* variant of CacheLookup: a hit is answered with what the network serves
\* now instead of the cached response
CacheLookupFresh(h) ==
    /\ hs[h].pc = "match"
    /\ \E ok \in StoreOutcomes :
          LET cached == CacheMatch(cacheNames, cacheData, hs[h].req) IN
          hs' = [hs EXCEPT ![h] =
                   IF ~ok
                   THEN [@ EXCEPT !.pc = "done", !.via = "storefail",
                                  !.reply = Rejected]
                   ELSE IF cached # NoEntry
                   THEN [@ EXCEPT !.pc = "bgfetch", !.via = "hit",
                                  !.reply = NetResponse(200, srv),
                                  !.sread = 1, !.nfetch = 1]
                   ELSE [@ EXCEPT !.pc = "fetch", !.sread = 1, !.nfetch = 1]]
    /\ UNCHANGED <<phase, cacheNames, cacheData, srv, storeDown, sched>>

\* lines 78-86: caches.match(request) settles.  On a hit the refresh is
\* started and the cached response resolves respondWith(); on a miss the
\* network fetch is started; a rejection of caches.match rejects respondWith().
CacheLookup(h) ==
    /\ hs[h].pc = "match"
    /\ \E ok \in StoreOutcomes :
          LET cached == CacheMatch(cacheNames, cacheData, hs[h].req) IN
          hs' = [hs EXCEPT ![h] =
                   IF ~ok
                   THEN [@ EXCEPT !.pc = "done", !.via = "storefail",
                                  !.reply = Rejected]
                   ELSE IF cached # NoEntry
                   THEN [@ EXCEPT !.pc = "bgfetch", !.via = "hit",
                                  !.reply = cached, !.sread = 1, !.nfetch = 1]
                   ELSE [@ EXCEPT !.pc = "fetch", !.sread = 1, !.nfetch = 1]]
    /\ UNCHANGED <<phase, cacheNames, cacheData, srv, storeDown, sched>>

\* lines 86-100: the fetch of a miss resolves
NetworkRespond(h) ==
    /\ hs[h].pc = "fetch"
    /\ \E st \in StatusesOf(hs[h].req.url) :
          LET response == NetResponse(st, srv) IN
          hs' = [hs EXCEPT ![h] =
                   IF Cacheable(response)
                   THEN [@ EXCEPT !.pc = "write", !.via = "net",
                                  !.reply = response, !.resp = response]
                   ELSE [@ EXCEPT !.pc = "done", !.via = "net",
                                  !.reply = response]]
    /\ UNCHANGED <<phase, cacheNames, cacheData, srv, storeDown, sched>>

\* lines 101-117: the fetch of a miss rejects
NetworkFail(h) ==
    /\ hs[h].pc = "fetch"
    /\ hs' = [hs EXCEPT ![h] =
                IF WantsFallback(hs[h].req)
                THEN [@ EXCEPT !.pc = "fallback"]
                ELSE [@ EXCEPT !.pc = "done", !.via = "offline",
                               !.reply = Offline]]
    /\ UNCHANGED <<phase, cacheNames, cacheData, srv, storeDown, sched>>

\* line 106: caches.match('./index.html') settles; what it resolves with,
\* undefined included, resolves respondWith()
FallbackLookup(h) ==
    /\ hs[h].pc = "fallback"
    /\ \E ok \in StoreOutcomes :
          LET cached == CacheMatch(cacheNames, cacheData, FallbackRequest) IN
          hs' = [hs EXCEPT ![h] =
                   IF ~ok
                   THEN [@ EXCEPT !.pc = "done", !.via = "storefail",
                                  !.reply = Rejected]
                   ELSE [@ EXCEPT !.pc = "done", !.via = "fallback",
                                  !.sread = @ + 1,
                                  !.reply = IF cached = NoEntry THEN Undefined
                                            ELSE cached]]
    /\ UNCHANGED <<phase, cacheNames, cacheData, srv, storeDown, sched>>

----------------------------------------------------------------------------
(* fetchAndUpdate, lines 123-133 *)

\* lines 124-125: the background fetch resolves
RefreshRespond(h) ==
    /\ hs[h].pc = "bgfetch"
    /\ \E st \in StatusesOf(hs[h].req.url) :
          LET response == NetResponse(st, srv) IN
          hs' = [hs EXCEPT ![h] =
                   IF RefreshCacheable(response)
                   THEN [@ EXCEPT !.pc = "write", !.resp = response]
                   ELSE [@ EXCEPT !.pc = "done"]]
    /\ UNCHANGED <<phase, cacheNames, cacheData, srv, storeDown, sched>>

\* lines 130-132: the background fetch rejects
RefreshFail(h) ==
    /\ hs[h].pc = "bgfetch"
    /\ hs' = [hs EXCEPT ![h].pc = "done"]
    /\ UNCHANGED <<phase, cacheNames, cacheData, srv, storeDown, sched>>

\* marks the hits on one of the keys as overtaken by a write
MarkDirty(handlers, keys) ==
    [g \in Handlers |->
       IF handlers[g].via = "hit" /\ handlers[g].req.url \in keys
       THEN [handlers[g] EXCEPT !.dirty = TRUE]
       ELSE handlers[g]]

----------------------------------------------------------------------------
(* The store write of a miss (lines 96-98) and of a refresh (126-128) *)

\* caches.open(DYNAMIC_CACHE).then(cache => cache.put(request, response)):
\* open creates the partition when it does not exist; put rejects for a
\* request that is not a GET; a rejection of either is handled by nobody.
\* dirty marks the hits whose key has been written since.
DynamicWrite(h) ==
    /\ hs[h].pc = "write"
    /\ \E okOpen \in StoreOutcomes, okPut \in StoreOutcomes :
          IF ~okOpen
          THEN /\ UNCHANGED <<cacheNames, cacheData>>
               /\ hs' = [hs EXCEPT ![h].pc = "done", ![h].resp = NoEntry]
          ELSE /\ cacheNames' = CacheOpen(cacheNames, DYNAMIC_CACHE)
               /\ IF okPut /\ hs[h].req.method = "GET"
                  THEN /\ cacheData' = CachePut(cacheData, DYNAMIC_CACHE,
                                                hs[h].req.url, hs[h].resp)
                       /\ hs' = MarkDirty([hs EXCEPT ![h].pc = "done",
                                                      ![h].resp = NoEntry,
                                                      ![h].swrite = 1],
                                           {hs[h].req.url})
                  ELSE /\ UNCHANGED cacheData
                       /\ hs' = [hs EXCEPT ![h].pc = "done",
                                           ![h].resp = NoEntry]
    /\ UNCHANGED <<phase, srv, storeDown, sched>>

----------------------------------------------------------------------------
(* message listener, lines 136-150.  SKIP_WAITING changes nothing the      *)
(* model holds (the worker called skipWaiting() when it was installed);    *)
(* CACHE_URLS adds the URLs of the message to the dynamic partition, all   *)
(* or none, and a rejection is handled by nobody.                          *)

MessageData ==
    { [type |-> "SKIP_WAITING", urls |-> <<>>],
      [type |-> "CACHE_URLS", urls |-> <<"app", "ext">>] }

Message ==
    /\ phase \in {"installed", "active"}
    /\ \E data \in MessageData :
          IF data.type # "CACHE_URLS"
          THEN UNCHANGED <<cacheNames, cacheData, hs>>
          ELSE \E okOpen \in StoreOutcomes :
                  IF ~okOpen
                  THEN UNCHANGED <<cacheNames, cacheData, hs>>
                  ELSE /\ cacheNames' = CacheOpen(cacheNames, DYNAMIC_CACHE)
                       /\ \E okAdd \in StoreOutcomes,
                             out \in AddAllOutcomes(Range(data.urls), srv) :
                             IF okAdd /\ out.ok
                             THEN /\ cacheData' =
                                       CacheAddAll(cacheData, DYNAMIC_CACHE,
                                                   out.entries)
                                  /\ hs' = MarkDirty(hs, Range(data.urls))
                             ELSE UNCHANGED <<cacheData, hs>>
    /\ UNCHANGED <<phase, srv, storeDown, sched>>

\* the page has consumed the response and the handler's tasks have ended
Retire(h) ==
    /\ hs[h].pc = "done"
    /\ hs' = [hs EXCEPT ![h] = IdleHandler]
    /\ UNCHANGED <<phase, cacheNames, cacheData, srv, storeDown, sched>>

----------------------------------------------------------------------------

Next ==
    \/ ServerUpdate
    \/ Install
    \/ Activate
    \/ Message
    \/ \E h \in Handlers : FetchEvent(h)
    \/ \E h \in Handlers : BypassRespond(h)
    \/ \E h \in Handlers : BypassFail(h)
    \/ \E h \in Handlers : CacheLookup(h)
    \/ \E h \in Handlers : NetworkRespond(h)
    \/ \E h \in Handlers : NetworkFail(h)
    \/ \E h \in Handlers : FallbackLookup(h)
    \/ \E h \in Handlers : RefreshRespond(h)
    \/ \E h \in Handlers : RefreshFail(h)
    \/ \E h \in Handlers : DynamicWrite(h)
    \/ \E h \in Handlers : Retire(h)

Spec == Init /\ [][Next]_vars

\* the same worker on a Cache Storage that may become unavailable
NextStoreFaults == Next \/ StoreBreaks

SpecStoreFaults == Init /\ [][NextStoreFaults]_vars

----------------------------------------------------------------------------
(* The periodic check.  It neither reads nor writes Cache Storage and      *)
(* shares no state with the fetch handlers, so it has a specification of   *)
(* its own: the worker is installed and activated, the clock advances, and *)
(* periodicsync events with the tag 'check-schedule' arrive at any time.   *)

\* time passes, by a minute, an hour or a day; a run that has ended is
\* forgotten
ClockAdvance ==
    /\ \E step \in {"minute", "hour", "day"} :
          LET m == IF step = "minute" THEN (sched.minutes + 1) % 60
                   ELSE sched.minutes
              carryH == step = "hour" \/ (step = "minute" /\ m = 0)
              h == IF carryH THEN (sched.hours + 1) % 24 ELSE sched.hours
              carryD == step = "day" \/ (carryH /\ h = 0)
              d == IF carryD THEN (sched.day + 1) % 7 ELSE sched.day
          IN  sched' = [NoSchedule EXCEPT !.day = d, !.hours = h,
                                          !.minutes = m]
    /\ UNCHANGED <<phase, cacheNames, cacheData, srv, storeDown, hs>>

\* lines 238-282: one run of checkScheduledMessages at the clock time read
PeriodicSync ==
    /\ phase = "active"
    /\ LET d == CheckScheduledMessages(sched.day, sched.hours, sched.minutes)
       IN  sched' = [sched EXCEPT !.ran = TRUE, !.message = d.message,
                                  !.shouldNotify = d.shouldNotify,
                                  !.shown = IF d.shouldNotify
                                            THEN <<d.message>> ELSE <<>>]
    /\ UNCHANGED <<phase, cacheNames, cacheData, srv, storeDown, hs>>

NextScheduler ==
    \/ Install
    \/ Activate
    \/ ClockAdvance
    \/ PeriodicSync

SpecScheduler == Init /\ [][NextScheduler]_vars

----------------------------------------------------------------------------
(* Vocabulary of the properties *)

\* the entries stored under a URL, over all partitions that exist
StoredEntries(u) ==
    {cacheData[n][u] : n \in Range(cacheNames)} \ {NoEntry}

\* a response object, as opposed to undefined, a rejection or no answer
IsResponse(r) == r.kind \in {"net", "synth"}

\* handler h took a step
Moved(h) == hs'[h].pc # hs[h].pc

----------------------------------------------------------------------------
(* C1: a document request that misses the Store, whose fetch fails while   *)
(* no index.html is stored, is still answered with a response object of a  *)
(* non-2xx status: never with an absent value, never with a rejection.     *)

C1_FallbackResponse ==
    [][\A h \in Handlers :
         (/\ hs[h].pc = "fallback"
          /\ Moved(h)
          /\ StoredEntries("index") = {})
         => /\ IsResponse(hs'[h].reply)
            /\ ~IsOk(hs'[h].reply.status)]_vars

\* C1 fails on the code; this is the state it fails in: respondWith() was
\* resolved with the undefined of caches.match('./index.html')
C1_UndefinedReply ==
    \E h \in Handlers :
       /\ hs[h].via = "fallback"
       /\ hs[h].req.dest = "document"
       /\ hs[h].reply = Undefined

----------------------------------------------------------------------------
(* C2: a request with an entry in the Store is answered with a stored      *)
(* entry at the moment the lookup settles, while the network fetch of its  *)
(* refresh is still outstanding, and the answer never changes afterwards,  *)
(* whatever that fetch does.                                               *)

HasEntry(req) == req.method = "GET" /\ StoredEntries(req.url) # {}

C2_HitServesStoredEntry ==
    [][\A h \in Handlers :
         /\ (hs[h].pc = "match" /\ Moved(h) /\ HasEntry(hs[h].req))
            => /\ hs'[h].reply \in StoredEntries(hs[h].req.url)
               /\ hs'[h].pc = "bgfetch"
               /\ hs'[h].nfetch = 1
         /\ (hs[h].via = "hit" /\ hs'[h].via = "hit")
            => hs'[h].reply = hs[h].reply]_vars

\* a hit whose refresh has stored a response that differs from the one served
C2_Witness ==
    \E h \in Handlers :
       /\ hs[h].via = "hit"
       /\ hs[h].pc = "done"
       /\ hs[h].swrite = 1
       /\ cacheData[DYNAMIC_CACHE][hs[h].req.url] # hs[h].reply

----------------------------------------------------------------------------
(* C3, as claimed: on a miss of a same-origin GET request, a network       *)
(* response with a success status (2xx) is returned to the caller and a    *)
(* store write is pending for it; once that write has run, a lookup of the *)
(* request finds the response.                                             *)

SameOriginGet(req) == req.method = "GET" /\ OriginOf(req.url) = "self"

C3_SuccessStored ==
    [][\A h \in Handlers :
         /\ (/\ hs[h].pc = "fetch"
             /\ Moved(h)
             /\ SameOriginGet(hs[h].req)
             /\ hs'[h].reply.kind = "net"
             /\ IsOk(hs'[h].reply.status))
            => /\ hs'[h].pc = "write"
               /\ hs'[h].resp = hs'[h].reply
         /\ (/\ hs[h].pc = "write"
             /\ hs[h].via = "net"
             /\ Moved(h)
             /\ SameOriginGet(hs[h].req))
            => CacheMatch(cacheNames', cacheData', hs[h].req) = hs[h].reply]_vars

(* C3, amended: the same for a network response of status 200.            *)

C3_Status200Stored ==
    [][\A h \in Handlers :
         /\ (/\ hs[h].pc = "fetch"
             /\ Moved(h)
             /\ SameOriginGet(hs[h].req)
             /\ hs'[h].reply.kind = "net"
             /\ hs'[h].reply.status = 200)
            => /\ hs'[h].pc = "write"
               /\ hs'[h].resp = hs'[h].reply
         /\ (/\ hs[h].pc = "write"
             /\ hs[h].via = "net"
             /\ Moved(h)
             /\ SameOriginGet(hs[h].req))
            => CacheMatch(cacheNames', cacheData', hs[h].req) = hs[h].reply]_vars

\* a miss whose network response has been returned and is now found by a lookup
C3_Witness ==
    \E h \in Handlers :
       /\ hs[h].via = "net"
       /\ hs[h].pc = "done"
       /\ hs[h].swrite = 1
       /\ SameOriginGet(hs[h].req)
       /\ hs[h].reply.status = 200
       /\ CacheMatch(cacheNames, cacheData, hs[h].req) = hs[h].reply

----------------------------------------------------------------------------
(* C4, as claimed: two calls for a key in the Store return identical       *)
(* responses, whatever the network did between them.                       *)

C4_SameReplyAlways ==
    \A h1, h2 \in Handlers :
       (/\ hs[h1].via = "hit"
        /\ hs[h2].via = "hit"
        /\ hs[h1].req.url = hs[h2].req.url)
       => hs[h1].reply = hs[h2].reply

(* C4, amended: two calls for a key in the Store return identical          *)
(* responses when no Store write for that key has completed since the      *)
(* earlier call's lookup; the network's state at the second call and       *)
(* refreshes that are in flight or have failed do not matter.              *)

C4_SameReplyUnlessWritten ==
    \A h1, h2 \in Handlers :
       (/\ hs[h1].via = "hit"
        /\ hs[h2].via = "hit"
        /\ hs[h1].req.url = hs[h2].req.url
        /\ ~hs[h1].dirty
        /\ ~hs[h2].dirty)
       => hs[h1].reply = hs[h2].reply

\* two hits on one key, the first with its refresh over, no write since, and
\* the server offering content that differs from what both were served
C4_Witness ==
    \E h1, h2 \in Handlers :
       /\ h1 # h2
       /\ hs[h1].via = "hit"
       /\ hs[h2].via = "hit"
       /\ hs[h1].req.url = hs[h2].req.url
       /\ hs[h1].pc = "done"
       /\ ~hs[h1].dirty
       /\ ~hs[h2].dirty
       /\ hs[h1].reply = hs[h2].reply
       /\ hs[h1].reply.body # srv

----------------------------------------------------------------------------
(* C5: a request whose URL contains script.google.com reads and writes no  *)
(* Store entry, issues exactly one network fetch, which decides the answer *)
(* alone: the network response as it came, or the fetch's rejection; the   *)
(* steps of such a request leave the Store as it was.                      *)

IsBypassUrl(h) ==
    hs[h].pc # "idle" /\ HrefIncludes(hs[h].req.url, "script.google.com")

C5_BypassUntouched ==
    [][\A h \in Handlers :
         /\ IsBypassUrl(h)
            => /\ hs[h].sread = 0
               /\ hs[h].swrite = 0
               /\ hs[h].nfetch = 1
               /\ hs[h].pc \in {"bypass", "done"}
         /\ (IsBypassUrl(h) /\ hs[h].pc = "bypass" /\ Moved(h))
            => /\ UNCHANGED <<cacheNames, cacheData>>
               /\ hs'[h].pc = "done"
               /\ \/ hs'[h].reply = Rejected
                  \/ \E st \in StatusesOf(hs[h].req.url) :
                        hs'[h].reply = NetResponse(st, srv)]_vars

\* a bypassed request answered by the network next to a Store that holds entries
C5_Witness ==
    \E h \in Handlers :
       /\ hs[h].via = "bypass"
       /\ hs[h].reply.kind = "net"
       /\ hs[h].nfetch = 1
       /\ \E k \in Keys : cacheData[DYNAMIC_CACHE][k] # NoEntry

----------------------------------------------------------------------------
(* C6: every entry of the dynamic partition is a network response with a   *)
(* success status, every write a handler has pending is one of status 200, *)
(* and a miss that the network answered with another status has returned   *)
(* that response and writes nothing.                                       *)

C6_NoFailureCached ==
    /\ \A k \in Keys :
          cacheData[DYNAMIC_CACHE][k] # NoEntry
          => /\ cacheData[DYNAMIC_CACHE][k].kind = "net"
             /\ IsOk(cacheData[DYNAMIC_CACHE][k].status)
    /\ \A h \in Handlers :
          /\ hs[h].pc = "write"
             => hs[h].resp.kind = "net" /\ hs[h].resp.status = 200
          /\ (hs[h].via = "net" /\ hs[h].reply.status # 200)
             => /\ hs[h].pc = "done"
                /\ hs[h].reply.kind = "net"
                /\ hs[h].swrite = 0

\* a miss answered with a server error, with its key still not in the Store
C6_Witness ==
    \E h \in Handlers :
       /\ hs[h].via = "net"
       /\ hs[h].reply.status = 500
       /\ StoredEntries(hs[h].req.url) = {}

----------------------------------------------------------------------------
(* C7: when the refresh of a hit has written its response, the next lookup *)
(* of the key finds that response, whichever partition served the hit.     *)

C7_RefreshServedNext ==
    [][\A h \in Handlers :
         (/\ hs[h].via = "hit"
          /\ hs[h].pc = "write"
          /\ hs'[h].swrite = 1)
         => CacheMatch(cacheNames', cacheData', hs[h].req) = hs[h].resp]_vars

----------------------------------------------------------------------------
(* C8: every request the worker answers ends with a response object: no    *)
(* failure of the foreground fetch reaches the caller.                     *)

C8_AlwaysSomeResponse ==
    \A h \in Handlers :
       (hs[h].reply # NoReply /\ hs[h].via # "ignored")
       => IsResponse(hs[h].reply)

----------------------------------------------------------------------------
(* C9: on a miss whose fetch fails, a request for a document is answered   *)
(* with the stored index.html when the Store holds one, a request for      *)
(* anything else with the synthesized 503 text response; neither writes    *)
(* the Store.                                                              *)

C9_FailedMiss ==
    [][\A h \in Handlers :
         /\ (/\ hs[h].pc = "fetch"
             /\ Moved(h)
             /\ hs'[h].reply.kind # "net"
             /\ hs[h].req.dest = "document")
            => /\ hs'[h].pc = "fallback"
               /\ hs'[h].reply = NoReply
               /\ UNCHANGED <<cacheNames, cacheData>>
         /\ (/\ hs[h].pc = "fetch"
             /\ Moved(h)
             /\ hs'[h].reply.kind # "net"
             /\ hs[h].req.dest # "document")
            => /\ hs'[h].pc = "done"
               /\ hs'[h].reply = [kind |-> "synth", status |-> 503, body |-> 0]
               /\ hs'[h].swrite = 0
               /\ UNCHANGED <<cacheNames, cacheData>>
         /\ (/\ hs[h].pc = "fallback"
             /\ Moved(h)
             /\ StoredEntries("index") # {})
            => /\ hs'[h].pc = "done"
               /\ hs'[h].reply \in StoredEntries("index")
               /\ hs'[h].swrite = 0
               /\ UNCHANGED <<cacheNames, cacheData>>]_vars

\* a failed document request answered with the stored index.html next to a
\* failed request for something else answered with the 503 response
C9_Witness ==
    \E h1, h2 \in Handlers :
       /\ hs[h1].via = "fallback"
       /\ hs[h1].req.url # "index"
       /\ hs[h1].reply \in StoredEntries("index")
       /\ hs[h2].via = "offline"
       /\ hs[h2].reply.status = 503

----------------------------------------------------------------------------
(* C10: when a Store operation rejects, the handler still ends with a      *)
(* response from the network or the fallback path.                         *)

C10_StoreFaultHidden ==
    \A h \in Handlers :
       (hs[h].reply # NoReply /\ hs[h].via \in {"storefail", "net", "hit"})
       => IsResponse(hs[h].reply)

----------------------------------------------------------------------------
(* C11: a background refresh that ends ends in one of two ways: with a     *)
(* response of status 200 handed to the store write, or, when the fetch    *)
(* rejected or answered with another status, silently: the handler is      *)
(* done, the response it delivered is the one it took from the Store,      *)
(* nothing was written and Cache Storage is as it was.                     *)

C11_RefreshFailureSwallowed ==
    [][\A h \in Handlers :
         (hs[h].pc = "bgfetch" /\ Moved(h))
         => \/ /\ hs'[h].pc = "write"
               /\ hs'[h].resp.kind = "net"
               /\ hs'[h].resp.status = 200
               /\ hs'[h].reply = hs[h].reply
            \/ /\ hs'[h].pc = "done"
               /\ hs[h].via = "hit"
               /\ IsResponse(hs[h].reply)
               /\ hs'[h].reply = hs[h].reply
               /\ hs'[h].swrite = 0
               /\ UNCHANGED <<cacheNames, cacheData>>]_vars

\* a hit whose refresh has ended without a write, the entry it served still
\* stored
C11_Witness ==
    \E h \in Handlers :
       /\ hs[h].via = "hit"
       /\ hs[h].pc = "done"
       /\ hs[h].swrite = 0
       /\ hs[h].nfetch = 1
       /\ ~hs[h].dirty
       /\ hs[h].reply \in StoredEntries(hs[h].req.url)

----------------------------------------------------------------------------
(* C12: a run of the periodic check decides from day, hour and minute      *)
(* alone and raises at most one reminder: the weekly one exactly on day 0  *)
(* at 12:00; the morning one exactly on another day at 8:00; the hourly    *)
(* one exactly on another day at half past an hour from 8 to 21; none at   *)
(* any other time.  Sunday 12:00 is weekly, Monday 8:00 morning, Monday    *)
(* 14:30 hourly, Monday 22:30 and Sunday 8:00 nothing.                     *)

C12_Expected(day, hours, minutes) ==
    IF day = 0 /\ hours = 12 /\ minutes = 0 THEN "weekly"
    ELSE IF day # 0 /\ hours = 8 /\ minutes = 0 THEN "morning"
    ELSE IF day # 0 /\ minutes = 30 /\ 8 <= hours /\ hours <= 21 THEN "hourly"
    ELSE ""

C12_TimetableDecision ==
    /\ Len(sched.shown) <= 1
    /\ sched.ran =>
          /\ sched.message = C12_Expected(sched.day, sched.hours, sched.minutes)
          /\ sched.shouldNotify = (sched.message # "")
          /\ sched.shown = IF sched.message = "" THEN <<>>
                           ELSE <<sched.message>>
    /\ CheckScheduledMessages(0, 12, 0).message = "weekly"
    /\ CheckScheduledMessages(1, 8, 0).message = "morning"
    /\ CheckScheduledMessages(1, 14, 30).message = "hourly"
    /\ ~CheckScheduledMessages(1, 22, 30).shouldNotify
    /\ ~CheckScheduledMessages(0, 8, 0).shouldNotify

\* the check has run on a Sunday at 8:00 and raised nothing
C12_Witness ==
    /\ sched.ran
    /\ sched.day = 0 /\ sched.hours = 8 /\ sched.minutes = 0
    /\ sched.shown = <<>>

----------------------------------------------------------------------------
(* C13: once the worker of the new version has been installed and          *)
(* activated, no partition of the application with another version token   *)
(* is listed by Cache Storage, then or later.                              *)

----------------------------------------------------------------------------
(* C14 as claimed: in every state exactly one static and exactly one       *)
(* dynamic partition exist and every partition carries the running         *)
(* version.                                                                *)

\* the positions in caches.keys() of the partitions of a kind that carry
\* the running version
LivePartitions(kind) ==
    {i \in 1..Len(cacheNames) :
        cacheNames[i].kind = kind /\ cacheNames[i].ver = STATIC_CACHE.ver}

C14_ExactlyOneEach ==
    /\ Cardinality(LivePartitions("static")) = 1
    /\ Cardinality(LivePartitions("dynamic")) = 1
    /\ \A n \in Range(cacheNames) : n.ver = STATIC_CACHE.ver

(* C14, amended: no partition of the running version exists before         *)
(* install; from install on exactly one static partition of the running    *)
(* version exists and zero or one dynamic partition; once the worker is    *)
(* active every partition carries the running version.                     *)

C14_AtMostOneEach ==
    /\ Cardinality(LivePartitions("static")) =
          (IF phase = "parsed" THEN 0 ELSE 1)
    /\ Cardinality(LivePartitions("dynamic")) <= 1
    /\ phase = "parsed" => LivePartitions("dynamic") = {}
    /\ phase = "active"
         => \A n \in Range(cacheNames) : n.ver = STATIC_CACHE.ver

\* the active worker with its two partitions, the dynamic one opened more
\* than once
C14_Witness ==
    /\ phase = "active"
    /\ cacheNames = <<STATIC_CACHE, DYNAMIC_CACHE>>
    /\ \E h1, h2 \in Handlers :
          h1 # h2 /\ hs[h1].swrite = 1 /\ hs[h2].swrite = 1

----------------------------------------------------------------------------
(* C15: a request to another origin that matches neither the allow-list    *)
(* nor the bypass pattern is left to the browser: the listener returns     *)
(* without a response of its own, starts no fetch, reads and writes no     *)
(* partition, and the step that takes the request changes nothing in       *)
(* Cache Storage.                                                          *)

\* handler h holds a request the origin rule excludes
IsForeignRequest(h) ==
    /\ hs[h].pc # "idle"
    /\ OriginOf(hs[h].req.url) # OriginOf("index")
    /\ ~HrefIncludes(hs[h].req.url, "fonts.googleapis.com")
    /\ ~HrefIncludes(hs[h].req.url, "script.google.com")

C15_ForeignOriginIgnored ==
    [][\A h \in Handlers :
         /\ IsForeignRequest(h)
            => /\ hs[h].pc = "done"
               /\ hs[h].via = "ignored"
               /\ hs[h].reply = Default
               /\ hs[h].nfetch = 0
               /\ hs[h].sread = 0
               /\ hs[h].swrite = 0
         /\ (hs[h].pc = "idle" /\ IsForeignRequest(h)')
            => UNCHANGED <<cacheNames, cacheData>>]_vars

\* a request to a foreign origin left to the browser although the Store
\* holds an entry under its URL
C15_Witness ==
    \E h \in Handlers :
       /\ hs[h].via = "ignored"
       /\ hs[h].reply = Default
       /\ OriginOf(hs[h].req.url) # OriginOf("index")
       /\ StoredEntries(hs[h].req.url) # {}

----------------------------------------------------------------------------
(* C16: within one request that hits the Store, the cached response is     *)
(* delivered in the step in which the lookup settles, while the refresh    *)
(* is still fetching and before it has written anything; the write of the  *)
(* refresh comes in a later step and finds the response delivered and      *)
(* leaves it as it is.                                                     *)

C16_DeliveryBeforeRefreshWrite ==
    [][\A h \in Handlers :
         /\ (hs[h].pc = "match" /\ hs'[h].via = "hit")
            => /\ IsResponse(hs'[h].reply)
               /\ hs'[h].pc = "bgfetch"
               /\ hs'[h].swrite = 0
               /\ UNCHANGED <<cacheNames, cacheData>>
         /\ (hs[h].via = "hit" /\ hs[h].pc \in {"bgfetch", "write"})
            => /\ IsResponse(hs[h].reply)
               /\ hs[h].swrite = 0
               /\ hs'[h].reply = hs[h].reply \/ hs'[h].pc = "idle"
         /\ (hs[h].via = "hit" /\ hs'[h].swrite = 1 /\ hs[h].swrite = 0)
            => /\ hs[h].pc = "write"
               /\ IsResponse(hs[h].reply)
               /\ hs'[h].reply = hs[h].reply]_vars

\* a hit whose response has been delivered while the refresh holds a newer
\* response it has yet to write
C16_Witness ==
    \E h \in Handlers :
       /\ hs[h].via = "hit"
       /\ hs[h].pc = "write"
       /\ IsResponse(hs[h].reply)
       /\ hs[h].resp # hs[h].reply
       /\ hs[h].swrite = 0

----------------------------------------------------------------------------
(* C17: every handler that hits the Store starts a background fetch of its *)
(* own, whatever the other handlers are doing.  The entry of a key in the  *)
(* dynamic partition changes only in whole: to the response held by a      *)
(* handler that writes that key, or to a response a CACHE_URLS message     *)
(* fetched.  The write of a handler replaces whatever is stored under its  *)
(* key, so after several writes the entry is the response written last.    *)

C17_LastWriteWins ==
    [][/\ \A h \in Handlers :
            /\ (hs[h].pc = "match" /\ hs'[h].via = "hit")
               => hs'[h].pc = "bgfetch" /\ hs'[h].nfetch = 1
            /\ (hs[h].pc = "write" /\ hs[h].req.method = "GET" /\ Moved(h))
               => /\ cacheData'[DYNAMIC_CACHE][hs[h].req.url] = hs[h].resp
                  /\ hs'[h].swrite = 1
       /\ \A k \in Keys :
            cacheData'[DYNAMIC_CACHE][k] # cacheData[DYNAMIC_CACHE][k]
            => \/ \E h \in Handlers :
                     /\ hs[h].pc = "write" /\ Moved(h)
                     /\ hs[h].req.url = k
                     /\ IsResponse(hs[h].resp)
                     /\ cacheData'[DYNAMIC_CACHE][k] = hs[h].resp
               \/ /\ \A h \in Handlers : ~Moved(h)
                  /\ \E st \in StatusesOf(k) :
                        /\ IsOk(st)
                        /\ cacheData'[DYNAMIC_CACHE][k] = NetResponse(st, srv)
      ]_vars

\* two handlers have hit the same key, each has fetched and written, and the
\* write applied last carried the older response
C17_Witness ==
    \E h1, h2 \in Handlers :
       /\ h1 # h2
       /\ hs[h1].via = "hit" /\ hs[h2].via = "hit"
       /\ hs[h1].req.url = hs[h2].req.url
       /\ hs[h1].nfetch = 1 /\ hs[h2].nfetch = 1
       /\ hs[h1].swrite = 1 /\ hs[h2].swrite = 1
       /\ cacheData[DYNAMIC_CACHE][hs[h1].req.url].body < srv

----------------------------------------------------------------------------
(* C18: every key stored in the static or the dynamic partition is a URL   *)
(* of the application's own origin or of the allow-listed host             *)
(* fonts.googleapis.com.                                                   *)

C18_FootprintBounded ==
    \A n \in {STATIC_CACHE, DYNAMIC_CACHE}, k \in Keys :
       cacheData[n][k] # NoEntry
       => \/ OriginOf(k) = OriginOf("index")
          \/ OriginOf(k) = "https://fonts.googleapis.com"

----------------------------------------------------------------------------
(* C19: no step removes a key from the static or the dynamic partition of  *)
(* the running version, nor either partition itself.  An entry disappears  *)
(* only with its whole partition, a partition of another version, at       *)
(* activate.                                                               *)

C19_KeysNeverShrink ==
    [][/\ \A n \in {STATIC_CACHE, DYNAMIC_CACHE} :
            n \in Range(cacheNames) => n \in Range(cacheNames')
       /\ \A n \in AllCaches, k \in Keys :
            (cacheData[n][k] # NoEntry /\ cacheData'[n][k] = NoEntry)
            => /\ n.ver # STATIC_CACHE.ver
               /\ phase = "installed" /\ phase' = "active"
               /\ n \in Range(cacheNames) /\ n \notin Range(cacheNames')
               /\ cacheData'[n] = EmptyCache]_vars

\* the active worker after requests and a CACHE_URLS message: the static
\* partition holds its assets and the dynamic one at least three keys
C19_Witness ==
    /\ phase = "active"
    /\ cacheData[STATIC_CACHE]["index"] # NoEntry
    /\ Cardinality({k \in Keys : cacheData[DYNAMIC_CACHE][k] # NoEntry}) >= 3
    /\ \E h \in Handlers : hs[h].swrite = 1

----------------------------------------------------------------------------
(* C20: at every clock reading at most one of the three timetable rules    *)
(* holds, so the outcome of a run is the reminder of the one rule that     *)
(* holds, or none, in whatever order the rules are tested.                 *)

\* the reminders whose rule holds at the clock reading
RulesHolding ==
    {r \in {"weekly", "morning", "hourly"} :
        \/ r = "weekly" /\ WeeklyRule(sched.day, sched.hours, sched.minutes)
        \/ r = "morning" /\ MorningRule(sched.day, sched.hours, sched.minutes)
        \/ r = "hourly" /\ HourlyRule(sched.day, sched.hours, sched.minutes)}

C20_RulesDisjoint ==
    /\ Cardinality(RulesHolding) <= 1
    /\ sched.ran => RulesHolding = {sched.message} \ {""}

\* a run on a Monday at 8:30, in the hour of the morning reminder, has
\* raised the hourly one
C20_Witness ==
    /\ sched.ran
    /\ sched.day = 1 /\ sched.hours = 8 /\ sched.minutes = 30
    /\ sched.shown = <<"hourly">>

====
